---- MODULE Spec2Model ----
(***************************************************************************)
(* RunTaskUseCase (backend/src/task/application/use_cases/run_task.py):    *)
(* one execute invocation that starts a remote job, polls it, persists the *)
(* outcome and posts a webhook.  The coroutine is modelled at its await    *)
(* points; the remote runner and the token refresher are the environment.  *)
(* The task record exists before execute runs and the runner handed to the *)
(* use case is authenticated with the token handed to it.                  *)
(***************************************************************************)
EXTENDS Integers, Sequences, FiniteSets, TLC

VARIABLES
    pc,             \* position of the execute coroutine
    task_id,        \* execute argument
    command,        \* TaskRun built from dto and image
    webhook_url,    \* dto.webhook_url (optional)
    token,          \* self.token
    runner_token,   \* credential installed in self.runner
    i,              \* iterations of the current _wait_for_result loop already completed
    error,          \* error returned by _run or _wait_for_result (optional)
    result,         \* TaskResultDTO returned by _wait_for_result (optional)
    task,           \* Task returned by update_by_pk (optional)
    db,             \* persisted task records, by task id
    effects,        \* committed writes and webhook posts, in order
    starts,         \* arguments and credential of every runner.start call, in order
    polls,          \* number of runner.get_result calls
    sleeps,         \* number of asyncio.sleep(1) calls
    refreshes,      \* number of token_refresher.execute calls that returned (up to MaxUnauthorized)
    refresh_input,  \* argument of the last token_refresher.execute call (optional)
    unauth_start,   \* Unauthorized responses to start (counted up to MaxUnauthorized)
    unauth_poll,    \* Unauthorized responses to get_result
    last_unauth_at, \* loop iteration of the last Unauthorized poll response (optional)
    raised,         \* exception that left execute uncaught (optional)
    runner_exception, \* exception raised by the latest runner call (optional)
    finished_poll,  \* raw get_result response that ended the poll loop (optional)
    start_response, \* response returned by runner.start (optional)
    exception_message, \* str(e) of the exception caught by _run (optional)
    remote_error,   \* error field of the latest mapped get_result response (optional)
    suspended       \* an execute invocation suspended at an await, as its own variables (optional)

vars == <<pc, task_id, command, webhook_url, token, runner_token, i, error,
          result, task, db, effects, starts, polls, sleeps, refreshes,
          refresh_input, unauth_start, unauth_poll, last_unauth_at, raised,
          runner_exception, finished_poll, start_response, exception_message,
          remote_error, suspended>>

(***************************************************************************)
(* Optional values (Python None).                                          *)
(***************************************************************************)
None == <<>>
Some(v) == <<v>>

(***************************************************************************)
(* Program constant and model bounds.                                      *)
(***************************************************************************)
TIMEOUT_SECONDS == 5 * 60

\* Unauthorized responses the remote runner gives in one invocation.
MaxUnauthorized == 2
\* Distinct credentials the refresher can hand out.
NumTokens == 2

Tokens == 1..NumTokens
TaskIds == {"t1", "t2"}
Commands == {"cmd"}
WebhookUrls == {None, Some("http://hook")}
Messages == {"rate limited", ""}
Payloads == {"ok", "other"}
\* Loop iterations at which get_result may answer Unauthorized.
UnauthorizedIterations == {0, TIMEOUT_SECONDS \div 2, TIMEOUT_SECONDS - 1}
\* Loop iterations at which get_result may report a failed remote job.
FailedIterations == {0, TIMEOUT_SECONDS \div 2, TIMEOUT_SECONDS - 1}

Min(a, b) == IF a < b THEN a ELSE b

(***************************************************************************)
(* Domain values.                                                          *)
(***************************************************************************)
TaskStatus == {"pending", "running", "finished", "failed"}

\* Raw integration responses of get_result.
RawStatuses == {"queued", "in_progress", "completed", "failed"}
RawResponses ==
    [status : {"queued", "in_progress"}, result : {None}, error : {None}]
    \cup [status : {"completed"}, result : {Some(p) : p \in Payloads}, error : {None}]
    \cup [status : {"failed"}, result : {None}, error : {Some("remote failure")}]

\* IntegrationResponseToDomainMapper.map_one
map_one(r) ==
    [status |-> CASE r.status = "queued" -> "pending"
                  [] r.status = "in_progress" -> "running"
                  [] r.status = "completed" -> "finished"
                  [] OTHER -> "failed",
     error |-> r.error,
     result |-> r.result]

\* TaskUpdate(status=..., error=..., result=...)
TaskUpdate(status, err, res) == [status |-> status, error |-> err, result |-> res]

\* uow.tasks.update_by_pk: the status is overwritten, an optional field is
\* overwritten when the update carries it.
update_by_pk(records, pk, upd) ==
    [records EXCEPT ![pk] =
        [id |-> pk,
         status |-> upd.status,
         error |-> IF upd.error = None THEN records[pk].error ELSE upd.error,
         result |-> IF upd.result = None THEN records[pk].result ELSE upd.result]]

\* TaskResultDTO(**task.model_dump())
TaskResultDTO(t) == [status |-> t.status, error |-> t.error, result |-> t.result]

\* TaskReadDTO(id=task_id, **result.model_dump())
TaskReadDTO(id, r) == [id |-> id, status |-> r.status, error |-> r.error, result |-> r.result]

\* token_refresher.execute: some credential other than the rejected one.
RefreshedTokens(old) == Tokens \ {old}

\* The runner is constructed with the credential that is also given to the
\* use case as token.
InstalledAtConstruction(tok) == tok

InitialTask(id) == [id |-> id, status |-> "pending", error |-> None, result |-> None]

Init ==
    /\ pc = "run"
    /\ task_id \in TaskIds
    /\ command \in Commands
    /\ webhook_url \in WebhookUrls
    /\ token \in Tokens
    /\ runner_token = InstalledAtConstruction(token)
    /\ i = 0
    /\ error = None
    /\ result = None
    /\ task = None
    /\ db = [id \in TaskIds |-> InitialTask(id)]
    /\ effects = <<>>
    /\ starts = <<>>
    /\ polls = 0
    /\ sleeps = 0
    /\ refreshes = 0
    /\ refresh_input = None
    /\ unauth_start = 0
    /\ unauth_poll = 0
    /\ last_unauth_at = None
    /\ raised = None
    /\ runner_exception = None
    /\ finished_poll = None
    /\ start_response = None
    /\ exception_message = None
    /\ remote_error = None
    /\ suspended = None

inputs == <<task_id, command, webhook_url>>
observed == <<start_response, exception_message, remote_error>>
credentials == <<token, runner_token, refreshes, refresh_input>>
outcome == <<error, result, task, db, effects, raised>>
poll_state == <<i, polls, sleeps, unauth_poll, last_unauth_at>>

(***************************************************************************)
(* _run: runner.start under asyncio.wait_for.                              *)
(***************************************************************************)
MaxStarts == MaxUnauthorized + 1

\* The start calls made so far (the oldest is dropped once MaxStarts are kept).
RecordStart(calls, call) ==
    IF Len(calls) < MaxStarts THEN Append(calls, call) ELSE Append(Tail(calls), call)

StartCall == [task_id |-> task_id, command |-> command, token |-> runner_token]

\* mutant: the first poll is made without sleeping first
StartOk_PollsAtOnce ==
    /\ pc = "run"
    /\ starts' = RecordStart(starts, StartCall)
    /\ start_response' = Some("response")
    /\ runner_exception' = None
    /\ i' = 0
    /\ pc' = "get_result"
    /\ UNCHANGED <<suspended, inputs, exception_message, remote_error, credentials, outcome,
                   polls, sleeps, unauth_start, unauth_poll, last_unauth_at,
                   finished_poll>>

StartOk ==
    /\ pc = "run"
    /\ starts' = RecordStart(starts, StartCall)
    /\ start_response' = Some("response")
    /\ runner_exception' = None
    /\ i' = 0
    /\ pc' = "loop"
    /\ UNCHANGED <<suspended, inputs, exception_message, remote_error, credentials, outcome, polls, sleeps, unauth_start,
                   unauth_poll, last_unauth_at, finished_poll>>

\* capped: the remote answers Unauthorized at most MaxUnauthorized times.
StartUnauthorized(capped) ==
    /\ pc = "run"
    /\ capped => unauth_start + unauth_poll < MaxUnauthorized
    /\ starts' = RecordStart(starts, StartCall)
    /\ unauth_start' = Min(unauth_start + 1, MaxUnauthorized)
    /\ runner_exception' = Some("IntegrationUnauthorizedExeception")
    /\ pc' = "refresh_run"
    /\ UNCHANGED <<suspended, inputs, observed, credentials, outcome, poll_state, finished_poll>>

\* an except clause of _run that returns None and an error string
RunFails(exception, str_e, message) ==
    /\ pc = "run"
    /\ starts' = RecordStart(starts, StartCall)
    /\ runner_exception' = Some(exception)
    /\ exception_message' = Some(str_e)
    /\ error' = Some(message)
    /\ pc' = "store_error"
    /\ UNCHANGED <<suspended, inputs, start_response, remote_error, credentials, result, task, db, effects, raised,
                   poll_state, unauth_start, finished_poll>>

\* mutant: a start timeout is taken for a started job
StartTimeout_Ignored ==
    /\ pc = "run"
    /\ starts' = RecordStart(starts, StartCall)
    /\ runner_exception' = Some("TimeoutError")
    /\ i' = 0
    /\ pc' = "loop"
    /\ UNCHANGED <<suspended, inputs, observed, credentials, outcome, polls, sleeps, unauth_start,
                   unauth_poll, last_unauth_at, finished_poll>>

\* except asyncio.TimeoutError
StartTimeout == RunFails("TimeoutError", "", "Generation run error: Timeout")

\* mutant: the request error falls through to the clause for Exception
StartRequestError_Unclassified ==
    \E m \in Messages : RunFails("IntegrationRequestException", m, "Internal exception: " \o m)

\* except IntegrationRequestException as e
StartRequestError ==
    \E m \in Messages : RunFails("IntegrationRequestException", m, "Request error: " \o m)

\* mutant: an unexpected exception is answered by refresh and retry
StartException_Retried ==
    /\ pc = "run"
    /\ starts' = RecordStart(starts, StartCall)
    /\ runner_exception' = Some("Exception")
    /\ \E m \in Messages : exception_message' = Some(m)
    /\ pc' = "refresh_run"
    /\ UNCHANGED <<suspended, inputs, start_response, remote_error, credentials, outcome,
                   poll_state, unauth_start, finished_poll>>

\* except Exception as e
StartException ==
    \E m \in Messages : RunFails("Exception", m, "Internal exception: " \o m)

\* mutant: the refreshed token is kept but not installed in the runner
Refresh_NotInstalled(next_pc) ==
    /\ \E new \in RefreshedTokens(token) : token' = new
    /\ runner_token' = runner_token
    /\ refresh_input' = Some(token)
    /\ refreshes' = Min(refreshes + 1, MaxUnauthorized)
    /\ suspended' = suspended
    /\ pc' = next_pc

\* mutant: set_client_token is called before self.token is assigned
Refresh_InstallsOld(next_pc) ==
    /\ \E new \in RefreshedTokens(token) : token' = new
    /\ runner_token' = token
    /\ refresh_input' = Some(token)
    /\ refreshes' = Min(refreshes + 1, MaxUnauthorized)
    /\ suspended' = suspended
    /\ pc' = next_pc

\* mutant: set_client_token reaches the runner of every invocation in flight
Refresh_SharedRunner(next_pc) ==
    /\ \E new \in RefreshedTokens(token) :
          /\ token' = new
          /\ runner_token' = new
          /\ suspended' = IF suspended = None
                          THEN suspended
                          ELSE Some([suspended[1] EXCEPT !.runner_token = new])
    /\ refresh_input' = Some(token)
    /\ refreshes' = Min(refreshes + 1, MaxUnauthorized)
    /\ pc' = next_pc

\* token_refresher.execute(self.token) returns; set_client_token follows at once;
\* self.runner is the runner of this invocation only.
Refresh(next_pc) ==
    /\ \E new \in RefreshedTokens(token) :
          /\ token' = new
          /\ runner_token' = new
    /\ refresh_input' = Some(token)
    /\ refreshes' = Min(refreshes + 1, MaxUnauthorized)
    /\ suspended' = suspended
    /\ pc' = next_pc

RefreshRun ==
    /\ pc = "refresh_run"
    /\ Refresh("run")
    /\ UNCHANGED <<inputs, observed, outcome, starts, poll_state, unauth_start,
                   runner_exception, finished_poll>>

\* mutant: the refresher's exception is turned into an error result
RefreshFails_Caught ==
    /\ pc \in {"refresh_run", "refresh_wait"}
    /\ refresh_input' = Some(token)
    /\ error' = Some("Internal exception: refresh failed")
    /\ pc' = "store_error"
    /\ UNCHANGED <<suspended, inputs, observed, token, runner_token, refreshes, raised, result,
                   task, db, effects, starts, poll_state, unauth_start,
                   runner_exception, finished_poll>>

\* token_refresher.execute raises: nothing in execute catches it.
RefreshFails ==
    /\ pc \in {"refresh_run", "refresh_wait"}
    /\ refresh_input' = Some(token)
    /\ raised' = Some("RefreshAccountTokens")
    /\ pc' = "raised"
    /\ UNCHANGED <<suspended, inputs, observed, token, runner_token, refreshes, error, result, task,
                   db, effects, starts, poll_state, unauth_start,
                   runner_exception, finished_poll>>

(***************************************************************************)
(* _wait_for_result: sleep one second, poll, up to TIMEOUT_SECONDS times.  *)
(***************************************************************************)
\* mutant: one iteration too many
Sleep_OffByOne ==
    /\ pc = "loop"
    /\ i <= TIMEOUT_SECONDS
    /\ sleeps' = sleeps + 1
    /\ pc' = "get_result"
    /\ UNCHANGED <<suspended, inputs, observed, credentials, outcome, starts, i, polls, unauth_start,
                   unauth_poll, last_unauth_at, runner_exception, finished_poll>>

\* for _ in range(TIMEOUT_SECONDS): await asyncio.sleep(1)
Sleep ==
    /\ pc = "loop"
    /\ i < TIMEOUT_SECONDS
    /\ sleeps' = sleeps + 1
    /\ pc' = "get_result"
    /\ UNCHANGED <<suspended, inputs, observed, credentials, outcome, starts, i, polls, unauth_start,
                   unauth_poll, last_unauth_at, runner_exception, finished_poll>>

\* range exhausted: return None, "Timeout"
LoopExhausted ==
    /\ pc = "loop"
    /\ i >= TIMEOUT_SECONDS
    /\ error' = Some("Timeout")
    /\ pc' = "store_error"
    /\ UNCHANGED <<suspended, inputs, observed, credentials, result, task, db, effects, raised,
                   starts, poll_state, unauth_start, runner_exception, finished_poll>>

\* get_result raises IntegrationUnauthorizedExeception
PollUnauthorized ==
    /\ pc = "get_result"
    /\ i \in UnauthorizedIterations
    /\ unauth_start + unauth_poll < MaxUnauthorized
    /\ polls' = polls + 1
    /\ unauth_poll' = unauth_poll + 1
    /\ last_unauth_at' = Some(i)
    /\ runner_exception' = Some("IntegrationUnauthorizedExeception")
    /\ pc' = "refresh_wait"
    /\ UNCHANGED <<suspended, inputs, observed, credentials, outcome, starts, i, sleeps, unauth_start,
                   finished_poll>>

\* mutant: the loop goes on from the iteration that was refused
RefreshWait_Resumes ==
    /\ pc = "refresh_wait"
    /\ Refresh("loop")
    /\ i' = i
    /\ UNCHANGED <<inputs, observed, outcome, starts, polls, sleeps, unauth_start,
                   unauth_poll, last_unauth_at, runner_exception, finished_poll>>

\* mutant: after the refresh the job is started again instead of polled
RefreshWait_CallsRun ==
    /\ pc = "refresh_wait"
    /\ Refresh("run")
    /\ i' = 0
    /\ UNCHANGED <<inputs, observed, outcome, starts, polls, sleeps, unauth_start,
                   unauth_poll, last_unauth_at, runner_exception, finished_poll>>

\* refresh, install, return await self._wait_for_result(task_id): a new loop
RefreshWait ==
    /\ pc = "refresh_wait"
    /\ Refresh("loop")
    /\ i' = 0
    /\ UNCHANGED <<inputs, observed, outcome, starts, polls, sleeps, unauth_start,
                   unauth_poll, last_unauth_at, runner_exception, finished_poll>>

\* get_result raises anything else: _wait_for_result has no handler for it
PollRaises ==
    /\ pc = "get_result"
    /\ polls' = polls + 1
    /\ \E e \in {"IntegrationRequestException", "Exception"} :
          /\ runner_exception' = Some(e)
          /\ raised' = Some(e)
    /\ pc' = "raised"
    /\ UNCHANGED <<suspended, inputs, observed, credentials, error, result, task, db, effects, starts,
                   i, sleeps, unauth_start, unauth_poll, last_unauth_at, finished_poll>>

\* mutant: a failed remote job ends the loop as well
ExitsLoop_AnyTerminal(result_domain) == result_domain.status \in {"finished", "failed"}

\* if result_domain.status is TaskStatus.finished
ExitsLoop(result_domain) == result_domain.status = "finished"

PollFinished ==
    /\ pc = "get_result"
    /\ \E r \in RawResponses :
          /\ ExitsLoop(map_one(r))
          /\ result' = Some(map_one(r))
          /\ finished_poll' = Some(r)
          /\ remote_error' = map_one(r).error
    /\ runner_exception' = None
    /\ polls' = polls + 1
    /\ pc' = "store_result"
    /\ UNCHANGED <<suspended, inputs, start_response, exception_message, credentials, error, task, db, effects, raised, starts,
                   i, sleeps, unauth_start, unauth_poll, last_unauth_at>>

PollNotFinished ==
    /\ pc = "get_result"
    /\ \E r \in RawResponses :
          /\ ~ExitsLoop(map_one(r))
          /\ map_one(r).status = "failed" => i \in FailedIterations
          /\ remote_error' = map_one(r).error
    /\ polls' = polls + 1
    /\ runner_exception' = None
    /\ i' = i + 1
    /\ pc' = "loop"
    /\ UNCHANGED <<suspended, inputs, start_response, exception_message, credentials, outcome, starts, sleeps, unauth_start,
                   unauth_poll, last_unauth_at, finished_poll>>

(***************************************************************************)
(* _store_error, _store_result, _send_webhook.                             *)
(***************************************************************************)
Write(id, upd) == [kind |-> "write", id |-> id, update |-> upd]
Post(url, json) == [kind |-> "post", url |-> url, json |-> json]

\* mutant: the transaction is left without commit
Store_NoCommit(upd) ==
    /\ db' = db
    /\ task' = Some(update_by_pk(db, task_id, upd)[task_id])
    /\ effects' = effects
    /\ pc' = "webhook"

\* mutant: a new error message is appended to the stored one
Store_Accumulates(upd) ==
    /\ db' = [update_by_pk(db, task_id, upd) EXCEPT ![task_id].error =
                 IF db[task_id].error # None /\ upd.error # None
                 THEN Some(db[task_id].error[1] \o "; " \o upd.error[1])
                 ELSE @]
    /\ task' = Some(db'[task_id])
    /\ effects' = Append(effects, Write(task_id, upd))
    /\ pc' = "webhook"

\* async with self.uow: update_by_pk(...); commit()
Store(upd) ==
    /\ db' = update_by_pk(db, task_id, upd)
    /\ task' = Some(db'[task_id])
    /\ effects' = Append(effects, Write(task_id, upd))
    /\ pc' = "webhook"

StoreError ==
    /\ pc = "store_error"
    /\ Store(TaskUpdate("failed", error, None))
    /\ UNCHANGED <<suspended, inputs, observed, credentials, error, result, raised, starts,
                   poll_state, unauth_start, runner_exception, finished_poll>>

\* mutant: the mapped result is not passed on to the update
StoreResult_DropsResult ==
    /\ pc = "store_result"
    /\ Store(TaskUpdate(result[1].status, result[1].error, None))
    /\ UNCHANGED <<suspended, inputs, observed, credentials, error, result, raised, starts,
                   poll_state, unauth_start, runner_exception, finished_poll>>

StoreResult ==
    /\ pc = "store_result"
    /\ Store(TaskUpdate(result[1].status, result[1].error, result[1].result))
    /\ UNCHANGED <<suspended, inputs, observed, credentials, error, result, raised, starts,
                   poll_state, unauth_start, runner_exception, finished_poll>>

\* mutant: the webhook is built from the poll result, not from the stored task
SendWebhook_FromResult ==
    /\ pc = "webhook"
    /\ effects' = IF webhook_url = None
                  THEN effects
                  ELSE Append(effects,
                              Post(webhook_url[1],
                                   TaskReadDTO(task_id,
                                               IF result = None
                                               THEN [status |-> "pending", error |-> None,
                                                     result |-> None]
                                               ELSE result[1])))
    /\ pc' = "done"
    /\ UNCHANGED <<suspended, inputs, observed, credentials, error, result, task, db, raised,
                   starts, poll_state, unauth_start, runner_exception, finished_poll>>

\* mutant: the URL is not tested for None
SendWebhook_Always ==
    /\ pc = "webhook"
    /\ effects' = Append(effects, Post(webhook_url,
                                       TaskReadDTO(task_id, TaskResultDTO(task[1]))))
    /\ pc' = "done"
    /\ UNCHANGED <<suspended, inputs, observed, credentials, error, result, task, db, raised, starts,
                   poll_state, unauth_start, runner_exception, finished_poll>>

\* mutant: execute does not return after notifying a failed start
SendWebhook_NoReturn ==
    /\ pc = "webhook"
    /\ effects' = IF webhook_url = None
                  THEN effects
                  ELSE Append(effects, Post(webhook_url[1],
                                            TaskReadDTO(task_id, TaskResultDTO(task[1]))))
    /\ pc' = IF error # None /\ polls = 0 /\ Len(effects) <= 1 THEN "loop" ELSE "done"
    /\ UNCHANGED <<suspended, inputs, observed, credentials, error, result, task, db, raised, starts,
                   poll_state, unauth_start, runner_exception, finished_poll>>

SendWebhook ==
    /\ pc = "webhook"
    /\ effects' = IF webhook_url = None
                  THEN effects
                  ELSE Append(effects, Post(webhook_url[1],
                                            TaskReadDTO(task_id, TaskResultDTO(task[1]))))
    /\ pc' = "done"
    /\ UNCHANGED <<suspended, inputs, observed, credentials, error, result, task, db, raised, starts,
                   poll_state, unauth_start, runner_exception, finished_poll>>

(***************************************************************************)
(* Specifications.                                                         *)
(***************************************************************************)
Completion ==
    \/ StartOk
    \/ StartTimeout
    \/ StartRequestError
    \/ StartException
    \/ RefreshRun
    \/ RefreshFails
    \/ Sleep
    \/ LoopExhausted
    \/ PollUnauthorized
    \/ RefreshWait
    \/ PollRaises
    \/ PollFinished
    \/ PollNotFinished
    \/ StoreError
    \/ StoreResult
    \/ SendWebhook

Next == StartUnauthorized(TRUE) \/ Completion

Spec == Init /\ [][Next]_vars

\* The remote may answer Unauthorized to every start call; the event loop
\* resumes the coroutine whenever an awaited call returns.
NextLive == StartUnauthorized(FALSE) \/ Completion

LiveSpec == Init /\ [][NextLive]_vars /\ WF_vars(NextLive)

(***************************************************************************)
(* The store paths on their own: _store_error or _store_result is applied  *)
(* to any prior record, and then applied once more with the same inputs.   *)
(***************************************************************************)
PriorRecords ==
    [id : TaskIds, status : TaskStatus,
     error : {None, Some("old error")}, result : {None, Some("old result")}]

StoredErrors == {Some("Timeout"), Some("Request error: rate limited")}

StoredResults == {Some(map_one(r)) : r \in {x \in RawResponses : ExitsLoop(map_one(x))}}

StoreInit ==
    /\ pc \in {"store_error", "store_result"}
    /\ task_id \in TaskIds
    /\ command \in Commands
    /\ webhook_url = None
    /\ token = 1
    /\ runner_token = token
    /\ i = 0
    /\ error \in (IF pc = "store_error" THEN StoredErrors ELSE {None})
    /\ result \in (IF pc = "store_result" THEN StoredResults ELSE {None})
    /\ task = None
    /\ db \in {d \in [TaskIds -> PriorRecords] : \A id \in TaskIds : d[id].id = id}
    /\ effects = <<>>
    /\ starts = <<>>
    /\ polls = 0
    /\ sleeps = 0
    /\ refreshes = 0
    /\ refresh_input = None
    /\ unauth_start = 0
    /\ unauth_poll = 0
    /\ last_unauth_at = None
    /\ raised = None
    /\ runner_exception = None
    /\ finished_poll = None
    /\ start_response = None
    /\ exception_message = None
    /\ remote_error = None
    /\ suspended = None

\* the same store path is entered again with the same arguments
StoreAgain ==
    /\ pc = "webhook"
    /\ Len(effects) = 1
    /\ pc' = (IF error # None THEN "store_error" ELSE "store_result")
    /\ UNCHANGED <<suspended, inputs, observed, credentials, outcome, starts, poll_state,
                   unauth_start, runner_exception, finished_poll>>

StoreNext == StoreError \/ StoreResult \/ StoreAgain

StoreSpec == StoreInit /\ [][StoreNext]_vars

\* ---- two execute invocations interleaved at their await points ----

\* Poll iterations one invocation makes while another is in flight.
MaxConcPolls == 1
\* Unauthorized answers one invocation gets while another is in flight.
MaxConcUnauthorized == 1

\* the variables of the running invocation
Invocation ==
    [pc |-> pc,
     task_id |-> task_id,
     command |-> command,
     webhook_url |-> webhook_url,
     token |-> token,
     runner_token |-> runner_token,
     i |-> i,
     error |-> error,
     result |-> result,
     task |-> task,
     starts |-> starts,
     polls |-> polls,
     sleeps |-> sleeps,
     refreshes |-> refreshes,
     refresh_input |-> refresh_input,
     unauth_start |-> unauth_start,
     unauth_poll |-> unauth_poll,
     last_unauth_at |-> last_unauth_at,
     raised |-> raised,
     runner_exception |-> runner_exception,
     finished_poll |-> finished_poll,
     start_response |-> start_response,
     exception_message |-> exception_message,
     remote_error |-> remote_error]

\* an invocation created by execute(id, dto, image) on a use case of its own
NewInvocation(id, cmd, url, tok) ==
    [pc |-> "run",
     task_id |-> id,
     command |-> cmd,
     webhook_url |-> url,
     token |-> tok,
     runner_token |-> InstalledAtConstruction(tok),
     i |-> 0,
     error |-> None,
     result |-> None,
     task |-> None,
     starts |-> <<>>,
     polls |-> 0,
     sleeps |-> 0,
     refreshes |-> 0,
     refresh_input |-> None,
     unauth_start |-> 0,
     unauth_poll |-> 0,
     last_unauth_at |-> None,
     raised |-> None,
     runner_exception |-> None,
     finished_poll |-> None,
     start_response |-> None,
     exception_message |-> None,
     remote_error |-> None]

ConcInit ==
    /\ pc = "run"
    /\ task_id = "t1"
    /\ command \in Commands
    /\ webhook_url = Some("http://hook")
    /\ token = 1
    /\ runner_token = InstalledAtConstruction(token)
    /\ i = 0
    /\ error = None
    /\ result = None
    /\ task = None
    /\ db = [id \in TaskIds |-> InitialTask(id)]
    /\ effects = <<>>
    /\ starts = <<>>
    /\ polls = 0
    /\ sleeps = 0
    /\ refreshes = 0
    /\ refresh_input = None
    /\ unauth_start = 0
    /\ unauth_poll = 0
    /\ last_unauth_at = None
    /\ raised = None
    /\ runner_exception = None
    /\ finished_poll = None
    /\ start_response = None
    /\ exception_message = None
    /\ remote_error = None
    /\ suspended = Some(NewInvocation("t2", command, webhook_url, token))

\* the event loop suspends the running invocation at its await and resumes the other
Switch ==
    /\ suspended # None
    /\ suspended' = Some(Invocation)
    /\ pc' = suspended[1].pc
    /\ task_id' = suspended[1].task_id
    /\ command' = suspended[1].command
    /\ webhook_url' = suspended[1].webhook_url
    /\ token' = suspended[1].token
    /\ runner_token' = suspended[1].runner_token
    /\ i' = suspended[1].i
    /\ error' = suspended[1].error
    /\ result' = suspended[1].result
    /\ task' = suspended[1].task
    /\ starts' = suspended[1].starts
    /\ polls' = suspended[1].polls
    /\ sleeps' = suspended[1].sleeps
    /\ refreshes' = suspended[1].refreshes
    /\ refresh_input' = suspended[1].refresh_input
    /\ unauth_start' = suspended[1].unauth_start
    /\ unauth_poll' = suspended[1].unauth_poll
    /\ last_unauth_at' = suspended[1].last_unauth_at
    /\ raised' = suspended[1].raised
    /\ runner_exception' = suspended[1].runner_exception
    /\ finished_poll' = suspended[1].finished_poll
    /\ start_response' = suspended[1].start_response
    /\ exception_message' = suspended[1].exception_message
    /\ remote_error' = suspended[1].remote_error
    /\ UNCHANGED <<db, effects>>

ConcSleep ==
    /\ i < MaxConcPolls
    /\ Sleep

ConcStartUnauthorized ==
    /\ unauth_start + unauth_poll < MaxConcUnauthorized
    /\ StartUnauthorized(TRUE)

ConcPollUnauthorized ==
    /\ unauth_start + unauth_poll < MaxConcUnauthorized
    /\ PollUnauthorized

ConcNext ==
    \/ Switch
    \/ StartOk
    \/ ConcStartUnauthorized
    \/ StartTimeout
    \/ StartRequestError
    \/ StartException
    \/ RefreshRun
    \/ RefreshFails
    \/ ConcSleep
    \/ ConcPollUnauthorized
    \/ RefreshWait
    \/ PollRaises
    \/ PollFinished
    \/ PollNotFinished
    \/ StoreError
    \/ StoreResult
    \/ SendWebhook

ConcSpec == ConcInit /\ [][ConcNext]_vars


(***************************************************************************)
(* Properties.                                                             *)
(***************************************************************************)
Writes == SelectSeq(effects, LAMBDA e : e.kind = "write")
Posts == SelectSeq(effects, LAMBDA e : e.kind = "post")
Terminated == pc \in {"done", "raised"}
Contains(s, sub) ==
    \E k \in 1..(Len(s) - Len(sub) + 1) : SubSeq(s, k, k + Len(sub) - 1) = sub

\* C1: an invocation whose start succeeded and in which a poll returned a
\* response mapped to finished ends with exactly one persistence write, of
\* status finished and the mapped result of that poll, and with exactly one
\* webhook call carrying that result when a URL was supplied (none otherwise).
C1_FinishedRunStoredAndNotifiedOnce ==
    (pc = "done" /\ finished_poll # None) =>
        /\ Len(Writes) = 1
        /\ Writes[1].id = task_id
        /\ Writes[1].update.status = "finished"
        /\ Writes[1].update.result = map_one(finished_poll[1]).result
        /\ db[task_id].status = "finished"
        /\ db[task_id].result = map_one(finished_poll[1]).result
        /\ Len(Posts) = (IF webhook_url = None THEN 0 ELSE 1)
        /\ webhook_url # None =>
              /\ Posts[1].url = webhook_url[1]
              /\ Posts[1].json.status = "finished"
              /\ Posts[1].json.result = db[task_id].result

C1_Witness ==
    /\ pc = "done"
    /\ finished_poll # None
    /\ unauth_start > 0
    /\ webhook_url # None
    /\ Len(Posts) = 1

\* C2: every failure raised by the runner in start or get_result ends with the
\* task persisted as failed and, when a URL was supplied, a webhook carrying
\* the error string (stated for the invocations in which the refresher itself
\* did not fail).
C2_RunnerFailurePersisted ==
    (Terminated /\ runner_exception # None /\ raised # Some("RefreshAccountTokens")) =>
        /\ db[task_id].status = "failed"
        /\ db[task_id].error = error
        /\ error # None
        /\ webhook_url # None => (Len(Posts) = 1 /\ Posts[1].json.error = error)

\* C3: every webhook post in the order of effects comes after a committed
\* write of a terminal status for the same task.
C3_WebhookAfterTerminalWrite ==
    \A k \in 1..Len(effects) :
        effects[k].kind = "post" =>
            /\ \E j \in 1..(k - 1) :
                  /\ effects[j].kind = "write"
                  /\ effects[j].id = effects[k].json.id
                  /\ effects[j].update.status \in {"finished", "failed"}
            /\ db[effects[k].json.id].status \in {"finished", "failed"}

C3_Witness ==
    /\ Len(Posts) = 1
    /\ error # None

\* C4: whatever the remote answers, one invocation makes at most one
\* persistence write and at most one webhook call.
C4_AtMostOneWriteOnePost ==
    /\ Len(Writes) <= 1
    /\ Len(Posts) <= 1

C4_Witness ==
    /\ pc = "done"
    /\ unauth_start > 0
    /\ unauth_poll > 0
    /\ Len(Writes) = 1
    /\ Len(Posts) = 1

\* C5: every invocation eventually terminates, also when the remote keeps
\* answering Unauthorized to start after each refresh.
C5_Terminates == <>Terminated

\* C6: when the start call times out, no get_result call is made and the task
\* is persisted as failed with an error message containing "Timeout".
C6_StartTimeoutFailsWithoutPoll ==
    runner_exception = Some("TimeoutError") =>
        /\ polls = 0
        /\ sleeps = 0
        /\ pc \in {"store_error", "webhook", "done"}
        /\ pc \in {"webhook", "done"} =>
              /\ db[task_id].status = "failed"
              /\ db[task_id].error # None
              /\ Contains(db[task_id].error[1], "Timeout")

C6_Witness ==
    /\ runner_exception = Some("TimeoutError")
    /\ pc = "done"
    /\ db[task_id].status = "failed"

\* C7: each Unauthorized answer to start is followed by exactly one refresh,
\* the refreshed credential is installed in the runner, and start is called
\* again with the same task id and command before anything is persisted or
\* posted; Unauthorized alone never yields a failed record.
C7_StartUnauthorizedRefreshesAndRetries ==
    /\ pc = "refresh_run" => refreshes + 1 = unauth_start + unauth_poll
    /\ pc \in {"run", "loop", "get_result", "store_error", "store_result", "webhook", "done"}
          => refreshes = unauth_start + unauth_poll
    /\ (pc = "run" /\ unauth_start > 0) =>
          /\ runner_token = token
          /\ refresh_input # Some(token)
          /\ Len(starts) = unauth_start
    /\ \A k \in 2..Len(starts) :
          /\ starts[k].task_id = starts[k - 1].task_id
          /\ starts[k].command = starts[k - 1].command
          /\ starts[k].token # starts[k - 1].token
    /\ Len(starts) <= unauth_start => effects = <<>>
    /\ runner_exception = Some("IntegrationUnauthorizedExeception") =>
          /\ error = None
          /\ db[task_id].status # "failed"

C7_Witness ==
    /\ unauth_start = 2
    /\ Len(starts) = 3
    /\ pc = "done"

\* C8: an Unauthorized answer to get_result at iteration i is followed by a
\* refresh, the installation of the new credential and a poll loop that starts
\* again at iteration 0: a Timeout comes only after TIMEOUT_SECONDS further
\* polls, and with k such answers the polls made number at most
\* (k + 1) * TIMEOUT_SECONDS.
C8_UnauthorizedPollRestartsBudget ==
    /\ polls <= (unauth_poll + 1) * TIMEOUT_SECONDS
    /\ (pc \in {"loop", "get_result"} /\ runner_exception = Some("IntegrationUnauthorizedExeception")) =>
          /\ i = 0
          /\ runner_token = token
          /\ refresh_input # Some(token)
    /\ (error = Some("Timeout") /\ last_unauth_at # None) =>
          polls >= (last_unauth_at[1] + 1) + TIMEOUT_SECONDS

C8_Witness ==
    /\ error = Some("Timeout")
    /\ unauth_poll >= 1
    /\ last_unauth_at = Some(TIMEOUT_SECONDS - 1)
    /\ polls = (unauth_poll + 1) * TIMEOUT_SECONDS

\* C9: without a webhook URL no post is made, whatever the outcome, and the
\* invocation that reaches its end has made its persistence write.
C9_NoUrlNoPost ==
    webhook_url = None =>
        /\ Posts = <<>>
        /\ pc = "done" => Len(Writes) = 1

C9_Witness ==
    /\ webhook_url = None
    /\ pc = "done"
    /\ error = Some("Timeout")
    /\ Len(Writes) = 1

\* C10: after a successful start and TIMEOUT_SECONDS consecutive polls, none
\* Unauthorized and none mapped to finished, no further poll is made, the
\* error is "Timeout" and the task is persisted as failed with exactly that
\* error.
C10_PollBudgetExhausted ==
    (unauth_poll = 0 /\ i = TIMEOUT_SECONDS) =>
        /\ polls = TIMEOUT_SECONDS
        /\ pc \in {"loop", "store_error", "webhook", "done"}
        /\ pc # "loop" => error = Some("Timeout")
        /\ pc \in {"webhook", "done"} =>
              /\ db[task_id].status = "failed"
              /\ db[task_id].error = Some("Timeout")
              /\ Writes[1].update = TaskUpdate("failed", Some("Timeout"), None)

C10_Witness ==
    /\ unauth_poll = 0
    /\ i = TIMEOUT_SECONDS
    /\ polls = TIMEOUT_SECONDS
    /\ pc = "done"
    /\ db[task_id].error = Some("Timeout")

\* C11: when start raises a request error with message m, start is not called
\* again, no poll is made, the task is persisted as failed with error exactly
\* "Request error: " followed by m, and the webhook, when a URL was supplied,
\* carries that error.
C11_StartRequestErrorStored ==
    (runner_exception = Some("IntegrationRequestException") /\ start_response = None) =>
        /\ exception_message # None
        /\ error = Some("Request error: " \o exception_message[1])
        /\ pc \in {"store_error", "webhook", "done"}
        /\ polls = 0
        /\ sleeps = 0
        /\ Len(starts) = unauth_start + 1
        /\ pc \in {"webhook", "done"} =>
              /\ db[task_id].status = "failed"
              /\ db[task_id].error = Some("Request error: " \o exception_message[1])
        /\ (pc = "done" /\ webhook_url # None) =>
              /\ Len(Posts) = 1
              /\ Posts[1].json.status = "failed"
              /\ Posts[1].json.error = Some("Request error: " \o exception_message[1])

C11_Witness ==
    /\ runner_exception = Some("IntegrationRequestException")
    /\ start_response = None
    /\ exception_message = Some("rate limited")
    /\ webhook_url # None
    /\ pc = "done"
    /\ db[task_id].error = Some("Request error: rate limited")

\* C12: applying the same store operation a second time, whatever the record
\* was before the first, leaves the persisted records and the returned task
\* as the first application left them.
C12_StoreIdempotent ==
    [][(Len(effects) = 1 /\ pc \in {"store_error", "store_result"}) =>
          /\ db' = db
          /\ task' = task
          /\ effects'[2] = effects[1]]_vars

C12_Witness ==
    /\ Len(effects) = 2
    /\ effects[1] = effects[2]
    /\ error # None
    /\ db[task_id].status = "failed"
    /\ db[task_id].result = Some("old result")

\* C13: the poll loop is left early only on a response mapped to finished; a
\* response mapped to failed, pending or running leaves the invocation in the
\* loop with one more iteration used, and a failed remote job is persisted, once
\* the budget is used up, as failed with error "Timeout", not the remote error.
C13_OnlyFinishedExitsLoop ==
    /\ [](pc = "store_result" =>
            /\ result # None
            /\ result[1].status = "finished"
            /\ finished_poll # None
            /\ map_one(finished_poll[1]).status = "finished")
    /\ [](remote_error # None =>
            /\ result = None
            /\ pc \in {"loop", "get_result", "refresh_wait", "raised",
                        "store_error", "webhook", "done"}
            /\ pc \in {"store_error", "webhook", "done"} =>
                  /\ i = TIMEOUT_SECONDS
                  /\ error = Some("Timeout")
            /\ pc \in {"webhook", "done"} =>
                  /\ db[task_id].status = "failed"
                  /\ db[task_id].error = Some("Timeout")
                  /\ db[task_id].error # remote_error)
    /\ [][(pc = "get_result" /\ polls' = polls + 1 /\ finished_poll' = None
             /\ runner_exception' = None) =>
              /\ pc' = "loop"
              /\ i' = i + 1]_vars

C13_Witness ==
    /\ remote_error = Some("remote failure")
    /\ pc = "done"
    /\ db[task_id].status = "failed"
    /\ db[task_id].error = Some("Timeout")

Phase(p) ==
    CASE p \in {"run", "refresh_run"} -> 0
      [] p \in {"loop", "get_result", "refresh_wait"} -> 1
      [] p \in {"store_error", "store_result"} -> 2
      [] p = "webhook" -> 3
      [] OTHER -> 4

\* C14: the phase of an invocation only moves forward (start, poll, store,
\* notify, end): get_result is called only after a start call has returned,
\* and after the terminal write there is no start call, no get_result call and
\* no credential refresh.
C14_PhaseOnlyMovesForward ==
    /\ []((polls > 0 \/ sleeps > 0 \/ pc \in {"loop", "get_result", "refresh_wait"})
             => start_response # None)
    /\ [][Phase(pc') >= Phase(pc)]_vars
    /\ [][Len(Writes) >= 1 =>
              /\ starts' = starts
              /\ polls' = polls
              /\ sleeps' = sleeps
              /\ refreshes' = refreshes
              /\ refresh_input' = refresh_input
              /\ token' = token
              /\ runner_token' = runner_token
              /\ db' = db]_vars

C14_Witness ==
    /\ pc = "done"
    /\ unauth_start > 0
    /\ unauth_poll > 0
    /\ polls > 1
    /\ Len(Writes) = 1
    /\ Len(Posts) = 1

StartFailed ==
    /\ start_response = None
    /\ runner_exception \in {Some("TimeoutError"), Some("IntegrationRequestException"),
                              Some("Exception")}

\* C15: once a start call has failed with a timeout, a request error or any
\* other exception, no further start call and no credential refresh is made,
\* and an unexpected exception with message m is persisted as failed with
\* error "Internal exception: " followed by m.
C15_StartFailureNotRetried ==
    /\ [](StartFailed =>
            /\ pc \in {"store_error", "webhook", "done"}
            /\ Len(starts) = unauth_start + 1
            /\ refreshes = unauth_start
            /\ polls = 0)
    /\ [][StartFailed =>
              /\ starts' = starts
              /\ refreshes' = refreshes
              /\ refresh_input' = refresh_input
              /\ token' = token
              /\ runner_token' = runner_token]_vars
    /\ []((StartFailed /\ runner_exception = Some("Exception")) =>
            /\ exception_message # None
            /\ error = Some("Internal exception: " \o exception_message[1])
            /\ pc \in {"webhook", "done"} =>
                  /\ db[task_id].status = "failed"
                  /\ db[task_id].error = Some("Internal exception: " \o exception_message[1]))

C15_Witness ==
    /\ StartFailed
    /\ runner_exception = Some("Exception")
    /\ exception_message = Some("rate limited")
    /\ unauth_start > 0
    /\ pc = "done"
    /\ db[task_id].error = Some("Internal exception: rate limited")

\* A refresh was asked for and did not return a credential.
RefresherFailed ==
    /\ pc \notin {"refresh_run", "refresh_wait"}
    /\ refreshes < unauth_start + unauth_poll

\* C16: when the token refresher fails after an Unauthorized answer, to start
\* or to get_result, the exception leaves execute: no write and no webhook
\* call is made and every task record is as it was before the invocation.
C16_RefresherFailurePropagates ==
    RefresherFailed =>
        /\ pc = "raised"
        /\ raised = Some("RefreshAccountTokens")
        /\ refresh_input = Some(token)
        /\ error = None
        /\ task = None
        /\ effects = <<>>
        /\ db = [id \in TaskIds |-> InitialTask(id)]

C16_Witness ==
    /\ RefresherFailed
    /\ raised = Some("RefreshAccountTokens")
    /\ unauth_start > 0
    /\ unauth_poll > 0
    /\ polls > 0

\* C17: whenever start or get_result is about to be called the runner carries
\* the credential the orchestrator holds; a refresh is given the credential
\* held at that time, and the credential it returns is held and installed in
\* the runner in the same step, before the next runner call.
C17_RunnerCarriesHeldToken ==
    /\ [](pc \in {"run", "loop", "get_result"} => runner_token = token)
    /\ [][(pc = "refresh_run" \/ pc = "refresh_wait") =>
              /\ refresh_input' = Some(token)
              /\ pc' # "raised" =>
                    /\ token' \in RefreshedTokens(token)
                    /\ runner_token' = token'
                    /\ refreshes' = refreshes + 1]_vars
    /\ [][(pc = "run" /\ Len(starts') > Len(starts)) =>
              starts'[Len(starts')].token = token]_vars

C17_Witness ==
    /\ pc = "get_result"
    /\ unauth_start > 0
    /\ unauth_poll > 0
    /\ refreshes = 2
    /\ runner_token = token
    /\ refresh_input # None
    /\ refresh_input # Some(token)

\* C19: every get_result call comes after a sleep of its own, the first one
\* included, and a poll loop makes at most TIMEOUT_SECONDS = 300 get_result
\* calls between its start, or the last credential refresh, and its end.
C19_SleepBeforeEachPollAndBudget ==
    /\ TIMEOUT_SECONDS = 300
    /\ sleeps = polls + (IF pc = "get_result" THEN 1 ELSE 0)
    /\ i \in 0..TIMEOUT_SECONDS
    /\ pc \in {"get_result", "refresh_wait", "store_result"} => i < TIMEOUT_SECONDS
    /\ polls <= (unauth_poll + 1) * TIMEOUT_SECONDS
    /\ (unauth_poll = 0 /\ pc \in {"loop", "get_result"}) => polls = i

C19_Witness ==
    /\ pc = "store_error"
    /\ error = Some("Timeout")
    /\ unauth_poll = 1
    /\ polls = 2 * TIMEOUT_SECONDS
    /\ sleeps = polls

\* C20: a webhook post carries the task id given to execute and the status,
\* error and result of the task that the persistence update of this
\* invocation returned and committed.
C20_WebhookCarriesPersistedTask ==
    \A k \in 1..Len(Posts) :
        /\ Len(Writes) = 1
        /\ task # None
        /\ task[1] = db[task_id]
        /\ Posts[k].json = TaskReadDTO(task_id, TaskResultDTO(task[1]))
        /\ Posts[k].json.id = task_id
        /\ Posts[k].json.status = Writes[1].update.status
        /\ Posts[k].json.status = db[task_id].status
        /\ Posts[k].json.error = db[task_id].error
        /\ Posts[k].json.result = db[task_id].result
        /\ Posts[k].json.error = error
        /\ Posts[k].json.result = (IF result = None THEN None ELSE result[1].result)

C20_Witness ==
    /\ Len(Posts) = 1
    /\ Posts[1].json.status = "failed"
    /\ Posts[1].json.error = Some("Timeout")
    /\ unauth_poll > 0

\* the task record of an invocation: untouched until the invocation stores,
\* then the task its own update returned, with its own error or result
OwnRecord(inv) ==
    IF inv.pc \in {"webhook", "done"}
    THEN /\ inv.task # None
         /\ db[inv.task_id] = inv.task[1]
         /\ db[inv.task_id].id = inv.task_id
         /\ db[inv.task_id].error = inv.error
         /\ inv.error = None =>
                /\ inv.finished_poll # None
                /\ db[inv.task_id].status = "finished"
                /\ db[inv.task_id].result = map_one(inv.finished_poll[1]).result
         /\ inv.error # None =>
                /\ db[inv.task_id].status = "failed"
                /\ db[inv.task_id].result = None
    ELSE db[inv.task_id] = InitialTask(inv.task_id)

\* the writes and posts made for an invocation: one write once it has stored,
\* one post once it has notified, none before
OwnEffects(inv) ==
    /\ Len(SelectSeq(Writes, LAMBDA e : e.id = inv.task_id)) =
           (IF inv.pc \in {"webhook", "done"} THEN 1 ELSE 0)
    /\ Len(SelectSeq(Posts, LAMBDA e : e.json.id = inv.task_id)) =
           (IF inv.pc = "done" /\ inv.webhook_url # None THEN 1 ELSE 0)
    /\ \A k \in 1..Len(Posts) :
           Posts[k].json.id = inv.task_id =>
               Posts[k].json = TaskReadDTO(inv.task_id, TaskResultDTO(db[inv.task_id]))

\* the credential of an invocation: the one it was built with until its own
\* first refresh, and at every runner call the one it holds
OwnCredential(inv) ==
    /\ inv.refreshes = 0 => (inv.token = 1 /\ inv.runner_token = 1)
    /\ inv.pc \in {"run", "loop", "get_result"} => inv.runner_token = inv.token
    /\ \A k \in 1..Len(inv.starts) : inv.starts[k].task_id = inv.task_id

\* C18: two execute invocations for distinct task ids, interleaved at their
\* await points, are independent: each task record is written only by its own
\* invocation and holds the outcome of its own remote job, and a step of one
\* invocation, a credential refresh included, leaves the other invocation's
\* variables, its token and its runner's credential among them, unchanged.
C18_InterleavedInvocationsIndependent ==
    /\ [](/\ suspended # None
          /\ task_id # suspended[1].task_id
          /\ OwnRecord(Invocation) /\ OwnRecord(suspended[1])
          /\ OwnEffects(Invocation) /\ OwnEffects(suspended[1])
          /\ OwnCredential(Invocation) /\ OwnCredential(suspended[1])
          /\ \A k \in 1..Len(Writes) : Writes[k].id \in {task_id, suspended[1].task_id})
    /\ [][task_id' = task_id => suspended' = suspended]_vars
    /\ [][task_id' # task_id =>
              (suspended' = Some(Invocation) /\ Invocation' = suspended[1]
               /\ db' = db /\ effects' = effects)]_vars

C18_Witness ==
    /\ suspended # None
    /\ pc = "done" /\ suspended[1].pc = "done"
    /\ unauth_poll = 1 /\ refreshes = 1 /\ token = 2 /\ runner_token = 2
    /\ suspended[1].refreshes = 0 /\ suspended[1].runner_token = 1
    /\ suspended[1].polls = 0 /\ Len(suspended[1].starts) = 1
    /\ db[task_id].status = "finished"
    /\ db[suspended[1].task_id].status = "failed"
    /\ db[suspended[1].task_id].error = Some("Request error: rate limited")
    /\ Len(Writes) = 2 /\ Len(Posts) = 2
    /\ Writes[1].id = task_id /\ Writes[2].id = suspended[1].task_id

====
